---- MODULE Spec2Model ----
(***************************************************************************)
(* Model of the EfficiencyDashboard component of src/src/app/page.tsx:     *)
(* entry validation, the derived efficiency, the entry collection, the     *)
(* aggregate statistics and the localStorage mirror.  The stats of the     *)
(* earlier revision of the component, src/unnamed/part_000, is modelled    *)
(* beside the current one.                                                 *)
(*                                                                         *)
(* Numbers are JavaScript Numbers, that is IEEE-754 binary64 values.  They *)
(* are modelled exactly: a finite double is sign, 53-bit significand and   *)
(* binary exponent, and every arithmetic operation of the source is the    *)
(* exact rational result rounded to nearest, ties to even.  TLC's integers *)
(* are 32 bits wide, so significands are kept as multi-limb naturals.      *)
(* Strings the code inspects character by character (the raw form inputs,  *)
(* the output of toFixed) are sequences of one-character strings.          *)
(***************************************************************************)
EXTENDS Integers, Sequences, FiniteSets, TLC

VARIABLES
    entries,        \* useState<TestEntry[]>: the collection, newest first
    formData,       \* useState({total, good, bad}): the raw input strings
    error,          \* useState<string | null>: the displayed message
    showAnalysis,   \* useState(false)
    isLoaded,       \* useState(false)
    storage,        \* localStorage[STORAGE_KEY]
    phase,          \* "mounted", "loaded", "loadedNonArray", "ready", "crashed"
    now,            \* the clock Date.now() reads
    submitted       \* history: outcome of the last handleAddEntry call

vars == <<entries, formData, error, showAnalysis, isLoaded, storage, phase, now, submitted>>

-----------------------------------------------------------------------------
(* Multi-limb naturals: little-endian sequences of limbs in 0..Base-1     *)
(* whose last limb is not 0; <<>> is zero.                                 *)

Base == 2^15

BOne == <<1>>

RECURSIVE BTrim(_)
BTrim(a) ==
    IF a = <<>> THEN <<>>
    ELSE IF a[Len(a)] = 0 THEN BTrim(SubSeq(a, 1, Len(a) - 1)) ELSE a

RECURSIVE BFromInt(_)
BFromInt(n) == IF n = 0 THEN <<>> ELSE <<n % Base>> \o BFromInt(n \div Base)

\* a + b + c, from limb i on
RECURSIVE BAddAt(_, _, _, _)
BAddAt(a, b, i, c) ==
    IF i > Len(a) /\ i > Len(b) THEN (IF c = 0 THEN <<>> ELSE <<c>>)
    ELSE LET Put(s) == <<s % Base>> \o BAddAt(a, b, i + 1, s \div Base)
         IN  Put((IF i > Len(a) THEN 0 ELSE a[i]) + (IF i > Len(b) THEN 0 ELSE b[i]) + c)

BAdd(a, b) == BAddAt(a, b, 1, 0)

\* a - b - c for a >= b + c, from limb i on, before trimming
RECURSIVE BSubAt(_, _, _, _)
BSubAt(a, b, i, c) ==
    IF i > Len(a) THEN <<>>
    ELSE LET Put(d) == <<d % Base>> \o BSubAt(a, b, i + 1, IF d < 0 THEN 1 ELSE 0)
         IN  Put(a[i] - (IF i > Len(b) THEN 0 ELSE b[i]) - c)

BSub(a, b) == BTrim(BSubAt(a, b, 1, 0))

\* -1, 0, 1 as a < b, a = b, a > b
RECURSIVE BCmpAt(_, _, _)
BCmpAt(a, b, i) ==
    IF i = 0 THEN 0
    ELSE IF a[i] < b[i] THEN -1
    ELSE IF a[i] > b[i] THEN 1
    ELSE BCmpAt(a, b, i - 1)

BCmp(a, b) ==
    IF Len(a) < Len(b) THEN -1
    ELSE IF Len(a) > Len(b) THEN 1
    ELSE BCmpAt(a, b, Len(a))

\* a * m + c for 0 <= m < Base, 0 <= c < Base, from limb i on
RECURSIVE BMulSmallAt(_, _, _, _)
BMulSmallAt(a, m, i, c) ==
    IF i > Len(a) THEN (IF c = 0 THEN <<>> ELSE <<c>>)
    ELSE LET Put(p) == <<p % Base>> \o BMulSmallAt(a, m, i + 1, p \div Base)
         IN  Put(a[i] * m + c)

BMulSmall(a, m, c) == BMulSmallAt(a, m, 1, c)

RECURSIVE BShlLimbs(_, _)
BShlLimbs(a, w) == IF w = 0 \/ a = <<>> THEN a ELSE BShlLimbs(<<0>> \o a, w - 1)

\* a * b: the limbs of a from i on times b
RECURSIVE BMulAt(_, _, _)
BMulAt(a, b, i) ==
    IF i > Len(a) \/ b = <<>> THEN <<>>
    ELSE BAdd(BMulSmall(b, a[i], 0), BShlLimbs(BMulAt(a, b, i + 1), 1))

BMul(a, b) == BMulAt(a, b, 1)

\* quotient and remainder of a by m, 0 < m < Base; limbs taken from the top
RECURSIVE BDivSmallAt(_, _, _, _, _)
BDivSmallAt(a, m, i, r, q) ==
    IF i = 0 THEN [q |-> BTrim(q), r |-> r]
    ELSE LET Put(t) == BDivSmallAt(a, m, i - 1, t % m, <<t \div m>> \o q)
         IN  Put(r * Base + a[i])

BDivSmall(a, m) == BDivSmallAt(a, m, Len(a), 0, <<>>)

RECURSIVE IntBitLen(_)
IntBitLen(n) == IF n = 0 THEN 0 ELSE 1 + IntBitLen(n \div 2)

BBitLen(a) == IF a = <<>> THEN 0 ELSE 15 * (Len(a) - 1) + IntBitLen(a[Len(a)])

BIsOdd(a) == a # <<>> /\ a[1] % 2 = 1

\* a * 2^k
BShl(a, k) == BShlLimbs(BMulSmall(a, 2^(k % 15), 0), k \div 15)

\* floor(a / 2^k), and whether any 1 bit was dropped
BShr(a, k) ==
    LET Low(w)    == IF w >= Len(a) THEN a ELSE SubSeq(a, 1, w)
        High(w)   == IF w >= Len(a) THEN <<>> ELSE SubSeq(a, w + 1, Len(a))
        Lost(low) == \E i \in 1..Len(low) : low[i] # 0
        Out(d, w) == [q |-> d.q, sticky |-> d.r # 0 \/ Lost(Low(w))]
    IN  Out(BDivSmall(High(k \div 15), 2^(k % 15)), k \div 15)

RECURSIVE BPow10(_)
BPow10(k) == IF k = 0 THEN BOne ELSE BMulSmall(BPow10(k - 1), 10, 0)

\* the number of zero limbs at the low end of a (a not zero)
RECURSIVE BLowZeros(_, _)
BLowZeros(a, i) == IF a[i] # 0 THEN i - 1 ELSE BLowZeros(a, i + 1)

\* r and qh, with d taken off r and qh raised while r >= d
RECURSIVE BFixDigit(_, _, _)
BFixDigit(r, d, qh) ==
    IF BCmp(r, d) < 0 THEN [r |-> r, qh |-> qh] ELSE BFixDigit(BSub(r, d), d, qh + 1)

\* Long division by a divisor d whose top limb is >= Base / 2, the limbs of n
\* taken from the top: r is the running remainder (r < d), q the digits so far.
\* Each quotient digit is first estimated from below with the two top limbs of
\* the remainder and the top limb of d.
RECURSIVE BDivModAt(_, _, _, _, _)
BDivModAt(n, d, i, r, q) ==
    IF i = 0 THEN [q |-> BTrim(q), r |-> r]
    ELSE LET L          == Len(d)
             Hi(r2)     == IF Len(r2) > L THEN r2[L + 1] ELSE 0
             Lo(r2)     == IF Len(r2) >= L THEN r2[L] ELSE 0
             Go(fix)    == BDivModAt(n, d, i - 1, fix.r, <<fix.qh>> \o q)
             Try(r2, e) == Go(BFixDigit(BSub(r2, BMulSmall(d, e, 0)), d, e))
             Digit(r2)  == Try(r2, (Hi(r2) * Base + Lo(r2)) \div (d[L] + 1))
         IN  Digit(IF r = <<>> /\ n[i] = 0 THEN <<>> ELSE <<n[i]>> \o r)

\* quotient of n by d (d > 0), and whether the remainder is not 0
BDivMod(n, d) ==
    LET Small(x)   == [q |-> x.q, sticky |-> x.r # 0]
        Big(x)     == [q |-> x.q, sticky |-> x.r # <<>>]
        Run(nn, dd) == Big(BDivModAt(nn, dd, Len(nn), <<>>, <<>>))
        Norm(s)    == Run(BShl(n, s), BShl(d, s))
    IN  IF Len(d) = 1 THEN Small(BDivSmall(n, d[1]))
        ELSE Norm(15 - IntBitLen(d[Len(d)]))

-----------------------------------------------------------------------------
(* JavaScript Numbers.  A finite value is (-1)^neg * man * 2^exp with man  *)
(* zero or 2^52 <= man < 2^53; NaN is a value of its own.  Infinities and  *)
(* subnormals lie outside the magnitudes the bounded inputs reach.         *)

NaN == [kind |-> "nan", neg |-> FALSE, man |-> <<>>, exp |-> 0]

DZero(neg) == [kind |-> "num", neg |-> neg, man |-> <<>>, exp |-> 0]

isNaN(x) == x.kind = "nan"

DIsZero(x) == x.kind = "num" /\ x.man = <<>>

\* the double nearest to (-1)^neg * (n / d) * 2^e, ties to even (n, d naturals,
\* d > 0): n / d is scaled by a power of two so that its integer part has 56 or
\* 57 bits, cut to 53 bits and a guard bit, and rounded on the guard bit and on
\* whether anything non-zero was cut off
RoundRatio(neg, n, d, e) ==
    LET Pack(m, ex)         == IF BBitLen(m) = 54      \* rounded up to 2^53
                                 THEN [kind |-> "num", neg |-> neg, man |-> BDivSmall(m, 2).q, exp |-> ex + 1]
                                 ELSE [kind |-> "num", neg |-> neg, man |-> m, exp |-> ex]
        Round(cut, rest, ex) == Pack(IF cut.r = 1 /\ (rest \/ BIsOdd(cut.q))
                                       THEN BAdd(cut.q, BOne) ELSE cut.q, ex)
        Guard(q54, rest, ex) == Round(BDivSmall(q54.q, 2), rest \/ q54.sticky, ex)
        Cut(q, rest, ex, drop) == Guard(BShr(q, drop), rest, ex + drop + 1)
        Quot(qs, rest, ex)  == Cut(qs.q, rest \/ qs.sticky, ex, BBitLen(qs.q) - 54)
        Div(n1, d0, ex)     == Quot(BDivMod(n1.q, d0), n1.sticky, ex)
        Scale(d0, ex, k)    == Div(IF k >= 0 THEN [q |-> BShl(n, k), sticky |-> FALSE]
                                   ELSE BShr(n, -k), d0, ex - k)
        Strip(d0, ex)       == Scale(d0, ex, 56 - (BBitLen(n) - BBitLen(d0)))
        Low(w)              == Strip(SubSeq(d, w + 1, Len(d)), e - 15 * w)
    IN  IF n = <<>> THEN DZero(neg) ELSE Low(BLowZeros(d, 1))

DFromInt(k) == RoundRatio(k < 0, BFromInt(IF k < 0 THEN -k ELSE k), BOne, 0)

DNeg(x) == IF isNaN(x) THEN x ELSE [x EXCEPT !.neg = ~x.neg]

DAbs(x) == IF isNaN(x) THEN x ELSE [x EXCEPT !.neg = FALSE]

\* x + y: the exact sum of the two significands brought to the smaller
\* exponent, rounded.  An operand more than 64 binary places below the other
\* does not change it.
DAdd(x, y) ==
    LET Sum(a, b, c, e) ==
            IF x.neg # y.neg /\ c = 0 THEN DZero(FALSE)
            ELSE RoundRatio(IF x.neg = y.neg \/ c > 0 THEN x.neg ELSE y.neg,
                            IF x.neg = y.neg THEN BAdd(a, b)
                            ELSE IF c > 0 THEN BSub(a, b) ELSE BSub(b, a),
                            BOne, e)
        Align(a, b, e) == Sum(a, b, BCmp(a, b), e)
        At(e) == Align(BShl(x.man, x.exp - e), BShl(y.man, y.exp - e), e)
    IN  IF isNaN(x) \/ isNaN(y) THEN NaN
        ELSE IF DIsZero(x) /\ DIsZero(y) THEN DZero(x.neg /\ y.neg)
        ELSE IF DIsZero(x) THEN y
        ELSE IF DIsZero(y) THEN x
        ELSE IF x.exp - y.exp > 64 THEN x
        ELSE IF y.exp - x.exp > 64 THEN y
        ELSE At(IF x.exp < y.exp THEN x.exp ELSE y.exp)

\* x - y
DSub(x, y) == DAdd(x, DNeg(y))

\* x * y
DMul(x, y) ==
    IF isNaN(x) \/ isNaN(y) THEN NaN
    ELSE RoundRatio(x.neg # y.neg, BMul(x.man, y.man), BOne, x.exp + y.exp)

\* x / y; 0 / 0 is NaN, and a non-zero x over 0 (an infinity) does not occur:
\* both divisions of the source have a divisor already known to be > 0
DDiv(x, y) ==
    IF isNaN(x) \/ isNaN(y) \/ DIsZero(y) THEN NaN
    ELSE RoundRatio(x.neg # y.neg, x.man, y.man, x.exp - y.exp)

\* -1, 0, 1 as x < y, x = y, x > y (neither NaN; -0 = +0)
DCmp(x, y) ==
    LET Mag == IF x.exp # y.exp THEN (IF x.exp > y.exp THEN 1 ELSE -1)
               ELSE BCmp(x.man, y.man)
    IN  IF DIsZero(x) /\ DIsZero(y) THEN 0
        ELSE IF DIsZero(x) THEN (IF y.neg THEN 1 ELSE -1)
        ELSE IF DIsZero(y) THEN (IF x.neg THEN -1 ELSE 1)
        ELSE IF x.neg # y.neg THEN (IF x.neg THEN -1 ELSE 1)
        ELSE IF x.neg THEN -Mag ELSE Mag

\* the relational operators: any comparison with NaN is false
DGt(x, y) == ~isNaN(x) /\ ~isNaN(y) /\ DCmp(x, y) > 0

DLe(x, y) == ~isNaN(x) /\ ~isNaN(y) /\ DCmp(x, y) <= 0

-----------------------------------------------------------------------------
(* Strings the code reads character by character.                          *)

DigitChars == <<"0", "1", "2", "3", "4", "5", "6", "7", "8", "9">>

IsDigit(c) == \E i \in 1..10 : DigitChars[i] = c

DigitVal(c) == (CHOOSE i \in 1..10 : DigitChars[i] = c) - 1

IsWhiteSpace(c) == c = " "

RECURSIVE TrimStart(_)
TrimStart(s) == IF s # <<>> /\ IsWhiteSpace(Head(s)) THEN TrimStart(Tail(s)) ELSE s

RECURSIVE TrimEnd(_)
TrimEnd(s) ==
    IF s # <<>> /\ IsWhiteSpace(s[Len(s)]) THEN TrimEnd(SubSeq(s, 1, Len(s) - 1)) ELSE s

\* the length of the longest run of decimal digits in s from position i
RECURSIVE DigitRun(_, _)
DigitRun(s, i) == IF i <= Len(s) /\ IsDigit(s[i]) THEN 1 + DigitRun(s, i + 1) ELSE 0

RECURSIVE BFromDigits(_, _, _)
BFromDigits(acc, ds, i) ==
    IF i > Len(ds) THEN acc ELSE BFromDigits(BMulSmall(acc, 10, DigitVal(ds[i])), ds, i + 1)

\* The longest prefix of s that is a StrDecimalLiteral: [+-] then digits,
\* digits "." digits-opt, or "." digits.  (The alphabet of the modelled
\* inputs has no "e" and no "Infinity", so no exponent part is scanned.)
\* ok: there is one; digits and scale: its digits and how many of them follow
\* the point; rest: what follows the prefix.
ScanDecimal(s) ==
    LET Out(b, ni, dot, nf, used) ==
            [ok     |-> ni > 0 \/ nf > 0,
             neg    |-> s # <<>> /\ s[1] = "-",
             digits |-> SubSeq(s, b, b + ni - 1) \o SubSeq(s, b + ni + 1, b + ni + nf),
             scale  |-> nf,
             rest   |-> IF ni > 0 \/ nf > 0 THEN SubSeq(s, b + used, Len(s)) ELSE s]
        Frac(b, ni, dot, nf) ==
            Out(b, ni, dot, nf, IF ni > 0 /\ dot THEN ni + 1 + nf ELSE IF ni > 0 THEN ni ELSE 1 + nf)
        Point(b, ni, dot) == Frac(b, ni, dot, IF dot THEN DigitRun(s, b + ni + 1) ELSE 0)
        Whole(b, ni) == Point(b, ni, b + ni <= Len(s) /\ s[b + ni] = ".")
        Body(b) == Whole(b, DigitRun(s, b))
    IN  Body(IF s # <<>> /\ s[1] \in {"+", "-"} THEN 2 ELSE 1)

\* the Number value of a scanned literal: the double nearest digits / 10^scale
LiteralValue(sc) == RoundRatio(sc.neg, BFromDigits(<<>>, sc.digits, 1), BPow10(sc.scale), 0)

\* parseFloat(string): leading white space skipped, the longest numeric prefix
\* converted, anything after it ignored; NaN when there is no such prefix
parseFloat(s) ==
    LET Value(sc) == IF sc.ok THEN LiteralValue(sc) ELSE NaN
    IN  Value(ScanDecimal(TrimStart(s)))

\* Number(string): the whole string, white space trimmed, must be a literal;
\* the empty string is +0
Number(s) ==
    LET Value(t, sc) == IF t = <<>> THEN DZero(FALSE)
                        ELSE IF sc.ok /\ sc.rest = <<>> THEN LiteralValue(sc)
                        ELSE NaN
        Trimmed(t) == Value(t, ScanDecimal(t))
    IN  Trimmed(TrimEnd(TrimStart(s)))

\* the decimal digits of a natural, most significant first (<<>> for 0)
RECURSIVE BToDigits(_)
BToDigits(a) ==
    IF a = <<>> THEN <<>>
    ELSE LET Put(d) == BToDigits(d.q) \o <<DigitChars[d.r + 1]>>
         IN  Put(BDivSmall(a, 10))

RECURSIVE ZeroPad(_, _)
ZeroPad(ds, n) == IF Len(ds) >= n THEN ds ELSE ZeroPad(<<"0">> \o ds, n)

\* Number.prototype.toFixed(f) for f >= 1: the integer n with n / 10^f nearest
\* to |x| (the larger n on a tie), written with f digits after the point
toFixed(x, f) ==
    LET Sign == IF x.neg /\ ~DIsZero(x) THEN <<"-">> ELSE <<>>
        Write(ds) == Sign \o SubSeq(ds, 1, Len(ds) - f) \o <<".">> \o SubSeq(ds, Len(ds) - f + 1, Len(ds))
        \* |x| * 10^f = scaled * 2^exp
        Nearest(scaled) == IF x.exp >= 0 THEN BShl(scaled, x.exp)
                           ELSE BShr(BAdd(BShl(scaled, 1), BShl(BOne, -x.exp)), 1 - x.exp).q
        Digits(scaled) == Write(ZeroPad(BToDigits(Nearest(scaled)), f + 1))
    IN  IF isNaN(x) THEN <<"N", "a", "N">> ELSE Digits(BMul(x.man, BPow10(f)))

-----------------------------------------------------------------------------
(* The component's values.                                                 *)

\* error === null
Null == "null"

MsgNotANumber == "Please enter valid numbers for all fields."

MsgInconsistent == "Validation Failed: Total Hours must equal Good + Bad Hours."

MsgNonPositive == "Total hours must be greater than zero."

\* no handleAddEntry call since the last other step
NotSubmitted == [done |-> FALSE, form |-> [total |-> <<>>, good |-> <<>>, bad |-> <<>>], error |-> "null"]

\* useState({ total: "", good: "", bad: "" })
EmptyForm == [total |-> <<>>, good |-> <<>>, bad |-> <<>>]

\* the tolerance written with a zero too many: 0.001
ToleranceThousandth == RoundRatio(FALSE, BOne, BPow10(3), 0)

\* the numeric literals 0.01, 0 and 100 of handleAddEntry
Tolerance == RoundRatio(FALSE, BOne, BPow10(2), 0)

Zero == DZero(FALSE)

Hundred == DFromInt(100)

\* localStorage.getItem(STORAGE_KEY) === null
Absent == [kind |-> "absent", items |-> <<>>]

\* a stored text JSON.parse throws on
Malformed == [kind |-> "malformed", items |-> <<>>]

\* a stored text that is JSON but not of an array, such as {}
NonArray == [kind |-> "object", items |-> <<>>]

\* JSON.stringify of a Number, as JSON.parse reads it back: a finite double is
\* written with the shortest digits that read back as the same double, -0 is
\* written 0, NaN is written null
JSONNumber(x) ==
    IF isNaN(x) THEN [kind |-> "null", neg |-> FALSE, man |-> <<>>, exp |-> 0]
    ELSE IF DIsZero(x) THEN DZero(FALSE)
    ELSE x

\* JSON.stringify(entries): the records in order, each with its six fields
JSONstringify(es) ==
    [kind  |-> "array",
     items |-> [i \in 1..Len(es) |->
                  [id         |-> es[i].id,
                   timestamp  |-> es[i].timestamp,
                   totalHours |-> JSONNumber(es[i].totalHours),
                   goodHours  |-> JSONNumber(es[i].goodHours),
                   badHours   |-> JSONNumber(es[i].badHours),
                   efficiency |-> JSONNumber(es[i].efficiency)]]]

\* the save effect writing only a collection that has entries
SaveEffectNonEmpty(loaded, es, store) == IF loaded /\ Len(es) > 0 THEN JSONstringify(es) ELSE store

\* the save effect without the isLoaded test
SaveEffectUnguarded(loaded, es, store) == JSONstringify(es)

\* the save effect: if (isLoaded) localStorage.setItem(STORAGE_KEY, JSON.stringify(entries))
SaveEffect(loaded, es, store) == IF loaded THEN JSONstringify(es) ELSE store

\* the efficiency of a new entry: Number(((good / total) * 100).toFixed(2))
Efficiency(good, total) == Number(toFixed(DMul(DDiv(good, total), Hundred), 2))

\* handleAddEntry with the total <= 0 check moved before the consistency check
ValidatePositiveFirst(form) ==
    LET Check(total, good, bad) ==
            [error |-> IF isNaN(total) \/ isNaN(good) \/ isNaN(bad) THEN MsgNotANumber
                       ELSE IF DLe(total, Zero) THEN MsgNonPositive
                       ELSE IF DGt(DAbs(DSub(total, DAdd(good, bad))), Tolerance) THEN MsgInconsistent
                       ELSE Null,
             total |-> total, good |-> good, bad |-> bad]
    IN  Check(parseFloat(form.total), parseFloat(form.good), parseFloat(form.bad))

\* what handleAddEntry decides for a form: the message it sets, or Null and
\* the three parsed numbers when the entry is accepted
Validate(form) ==
    LET Check(total, good, bad) ==
            [error |-> IF isNaN(total) \/ isNaN(good) \/ isNaN(bad) THEN MsgNotANumber
                       ELSE IF DGt(DAbs(DSub(total, DAdd(good, bad))), Tolerance) THEN MsgInconsistent
                       ELSE IF DLe(total, Zero) THEN MsgNonPositive
                       ELSE Null,
             total |-> total, good |-> good, bad |-> bad]
    IN  Check(parseFloat(form.total), parseFloat(form.good), parseFloat(form.bad))

\* const newEntry: TestEntry = { id, timestamp, totalHours, goodHours, badHours, efficiency }
NewEntry(id, t, v) ==
    [id         |-> id,
     timestamp  |-> t,
     totalHours |-> v.total,
     goodHours  |-> v.good,
     badHours   |-> v.bad,
     efficiency |-> Efficiency(v.good, v.total)]

\* entries.reduce((sum, e) => sum + e[field], 0)
RECURSIVE SumFrom(_, _, _, _)
SumFrom(es, field, i, acc) ==
    IF i > Len(es) THEN acc ELSE SumFrom(es, field, i + 1, DAdd(acc, es[i][field]))

\* the reduce started at the second entry
SumButFirst(es, field) == SumFrom(es, field, 2, Zero)

Sum(es, field) == SumFrom(es, field, 1, Zero)

\* stats without the entries.length === 0 return
statsNoEmptyCase(es) ==
    [totalRecording |-> Sum(es, "totalHours"),
     totalGood      |-> Sum(es, "goodHours"),
     totalBad       |-> Sum(es, "badHours"),
     avgEfficiency  |-> DDiv(Sum(es, "efficiency"), DFromInt(Len(es)))]

\* stats with the average recomputed from the summed hours
statsFromTotals(es) ==
    IF Len(es) = 0
      THEN [totalRecording |-> Zero, totalGood |-> Zero, totalBad |-> Zero, avgEfficiency |-> Zero]
      ELSE [totalRecording |-> Sum(es, "totalHours"),
            totalGood      |-> Sum(es, "goodHours"),
            totalBad       |-> Sum(es, "badHours"),
            avgEfficiency  |-> DMul(DDiv(Sum(es, "goodHours"), Sum(es, "totalHours")), Hundred)]

\* const stats = useMemo(...)
stats(es) ==
    IF Len(es) = 0
      THEN [totalRecording |-> Zero, totalGood |-> Zero, totalBad |-> Zero, avgEfficiency |-> Zero]
      ELSE [totalRecording |-> Sum(es, "totalHours"),
            totalGood      |-> Sum(es, "goodHours"),
            totalBad       |-> Sum(es, "badHours"),
            avgEfficiency  |-> DDiv(Sum(es, "efficiency"), DFromInt(Len(es)))]

\* stats of src/unnamed/part_000: the sums are always taken, and only the
\* average has the entries.length > 0 test
stats_part_000(es) ==
    [totalRecording |-> Sum(es, "totalHours"),
     totalGood      |-> Sum(es, "goodHours"),
     totalBad       |-> Sum(es, "badHours"),
     avgEfficiency  |-> IF Len(es) > 0 THEN DDiv(Sum(es, "efficiency"), DFromInt(Len(es))) ELSE Zero]

\* pieData with the slices of value 0 left out
pieDataNonZero(s) ==
    SelectSeq(<<[name |-> "Useful (Good)", value |-> s.totalGood, color |-> "#3b82f6"],
                [name |-> "Wasted (Bad)", value |-> s.totalBad, color |-> "#ef4444"]>>,
              LAMBDA d : ~DIsZero(d.value))

\* const pieData = [...], of the snapshot s
pieData(s) ==
    <<[name |-> "Useful (Good)", value |-> s.totalGood, color |-> "#3b82f6"],
      [name |-> "Wasted (Bad)", value |-> s.totalBad, color |-> "#ef4444"]>>

\* the chart given the collection as it is
trendDataUnreversed(es) == es

\* <AreaChart data={[...entries].reverse()}>: a reversed copy, of which the
\* chart reads timestamp and efficiency

trendData(es) == [i \in 1..Len(es) |-> es[Len(es) + 1 - i]]

-----------------------------------------------------------------------------
(* Bounds of the model.                                                    *)

\* the collection is not grown beyond this many entries
MaxEntries == 2

\* the ids Math.random().toString(36).substr(2, 9) is taken to return
Ids == {"k3x", "p9q"}

\* the readings Date.now() is taken to return, none earlier than the one before
Times == {0, 1}

\* What the three <input type="number"> fields are given: the browser hands
\* the handler "" or a valid number literal.
FieldValues ==
    [total |-> {<<>>, <<"0">>, <<"3">>, <<"1", "0">>},
     good  |-> {<<"0">>, <<"7">>},
     bad   |-> {<<"0">>, <<"3">>}]

\* what localStorage holds when the page is opened: nothing, or what an
\* earlier session left, or something else put under the key
StoredEntry == NewEntry("k3x", 0, Validate([total |-> <<"1", "0">>, good |-> <<"7">>, bad |-> <<"3">>]))

\* an array no session of this page wrote: one record with the six fields, all 0
ForeignEntry ==
    [id |-> "p9q", timestamp |-> 0, totalHours |-> Zero, goodHours |-> Zero,
     badHours |-> Zero, efficiency |-> Zero]

InitialStorage ==
    {Absent, Malformed, NonArray, JSONstringify(<<>>), JSONstringify(<<StoredEntry>>),
     JSONstringify(<<ForeignEntry>>)}

\* The strings handleAddEntry is applied to as a function of formData: number
\* literals with up to three decimals, the empty string, text that is no
\* number, and a number followed by other characters.
RawValues ==
    [total |-> {<<>>, <<"0">>, <<"3">>, <<"1", "0">>, <<"0", ".", "3">>, <<"-", "7">>,
                <<"1", "0", "a", "b", "c">>},
     good  |-> {<<"0">>, <<"7">>, <<"1", "0">>, <<"0", ".", "0", "1">>, <<"a", "b", "c">>},
     bad   |-> {<<"0">>, <<"3">>, <<"2", ".", "9", "9">>, <<"2", ".", "9", "8", "9">>,
                <<"0", ".", "3">>, <<"-", "7">>}]

RawForms == [total : RawValues.total, good : RawValues.good, bad : RawValues.bad]

\* Collections stats and the views are computed from: up to MaxCollection
\* entries, each made by handleAddEntry from one of SampleForms, the k-th added
\* with id SampleIds[k] at time SampleTimes[k].  Two of the times are the same.
MaxCollection == 3

SampleForms ==
    {[total |-> <<"2", "4">>, good |-> <<"2", "2">>, bad |-> <<"2">>],
     [total |-> <<"2", "4">>, good |-> <<"1", "9">>, bad |-> <<"5">>],
     [total |-> <<"2", "4">>, good |-> <<"2", "4">>, bad |-> <<"0">>],
     [total |-> <<"0", ".", "1">>, good |-> <<"0">>, bad |-> <<"0", ".", "1">>],
     [total |-> <<"0", ".", "2">>, good |-> <<"0">>, bad |-> <<"0", ".", "2">>]}

SampleIds == <<"k3x", "p9q", "w07", "z5m">>

SampleTimes == <<0, 1, 1, 2>>

\* the entries handleAddEntry makes of the sample forms, id and time left open
SampleEntries == UNION {{NewEntry("", 0, v) : v \in {Validate(f)}} : f \in SampleForms}

\* the collections of n entries, newest first: the k-th added is at n + 1 - k
Collections(n) ==
    {[i \in 1..n |-> [es[n + 1 - i] EXCEPT !.id = SampleIds[n + 1 - i],
                                           !.timestamp = SampleTimes[n + 1 - i]]] :
         es \in [1..n -> SampleEntries]}

SampleCollections == UNION {Collections(n) : n \in 0..MaxCollection}

-----------------------------------------------------------------------------
(* The operations.                                                         *)

Init ==
    /\ entries = <<>>
    /\ formData = EmptyForm
    /\ error = Null
    /\ showAnalysis = FALSE
    /\ isLoaded = FALSE
    /\ storage \in InitialStorage
    /\ phase = "mounted"
    /\ now = 0
    /\ submitted = NotSubmitted

\* The first effect, run once after the first render: read the stored text,
\* JSON.parse it, setEntries, setIsLoaded(true).  The save effect runs right
\* after it in the same commit, with the isLoaded and entries of the first
\* render (false and []).
MountEffects ==
    /\ phase = "mounted"
    /\ entries' = IF storage.kind = "array" THEN storage.items ELSE entries
    /\ isLoaded' = TRUE
    /\ storage' = SaveEffect(isLoaded, entries, storage)
    /\ phase' = IF storage.kind = "object" THEN "loadedNonArray" ELSE "loaded"
    /\ submitted' = NotSubmitted
    /\ UNCHANGED <<formData, error, showAnalysis, now>>

\* The render that follows: entries.length and entries.reduce need an array,
\* so a value that is none ends the component; else the save effect runs,
\* now with isLoaded true.
RenderLoaded ==
    /\ phase \in {"loaded", "loadedNonArray"}
    /\ phase' = IF phase = "loadedNonArray" THEN "crashed" ELSE "ready"
    /\ storage' = IF phase = "loadedNonArray" THEN storage
                  ELSE SaveEffect(isLoaded, entries, storage)
    /\ submitted' = NotSubmitted
    /\ UNCHANGED <<entries, formData, error, showAnalysis, isLoaded, now>>

\* handleInputChange without setError(null)
handleInputChangeKeepsError(name, value) ==
    /\ phase = "ready"
    /\ formData' = [formData EXCEPT ![name] = value]
    /\ submitted' = NotSubmitted
    /\ UNCHANGED <<entries, error, showAnalysis, isLoaded, storage, phase, now>>

handleInputChange(name, value) ==
    /\ phase = "ready"
    /\ formData' = [formData EXCEPT ![name] = value]
    /\ error' = Null
    /\ submitted' = NotSubmitted
    /\ UNCHANGED <<entries, showAnalysis, isLoaded, storage, phase, now>>

\* handleAddEntry with the form reset moved before the checks
handleAddEntryResetFirst(id, t) ==
    /\ phase = "ready"
    /\ formData' = EmptyForm
    /\ \E v \in {Validate(formData)} :
           IF v.error # Null
             THEN /\ error' = v.error
                  /\ submitted' = [done |-> TRUE, form |-> formData, error |-> v.error]
                  /\ UNCHANGED <<entries, showAnalysis, isLoaded, storage, phase, now>>
             ELSE /\ Len(entries) < MaxEntries
                  /\ entries' = <<NewEntry(id, t, v)>> \o entries
                  /\ showAnalysis' = FALSE
                  /\ storage' = SaveEffect(isLoaded, entries', storage)
                  /\ now' = t
                  /\ submitted' = [done |-> TRUE, form |-> formData, error |-> Null]
                  /\ UNCHANGED <<error, isLoaded, phase>>

\* handleAddEntry with the new entry put last: [...prev, newEntry]
handleAddEntryAppend(id, t) ==
    /\ phase = "ready"
    /\ \E v \in {Validate(formData)} :
           IF v.error # Null
             THEN /\ error' = v.error
                  /\ submitted' = [done |-> TRUE, form |-> formData, error |-> v.error]
                  /\ UNCHANGED <<entries, formData, showAnalysis, isLoaded, storage, phase, now>>
             ELSE /\ Len(entries) < MaxEntries
                  /\ entries' = entries \o <<NewEntry(id, t, v)>>
                  /\ formData' = EmptyForm
                  /\ showAnalysis' = FALSE
                  /\ storage' = SaveEffect(isLoaded, entries', storage)
                  /\ now' = t
                  /\ submitted' = [done |-> TRUE, form |-> formData, error |-> Null]
                  /\ UNCHANGED <<error, isLoaded, phase>>

\* id: what Math.random() yields; t: what Date.now() reads
handleAddEntry(id, t) ==
    /\ phase = "ready"
    /\ \E v \in {Validate(formData)} :
           IF v.error # Null
             THEN /\ error' = v.error
                  /\ submitted' = [done |-> TRUE, form |-> formData, error |-> v.error]
                  /\ UNCHANGED <<entries, formData, showAnalysis, isLoaded, storage, phase, now>>
             ELSE /\ Len(entries) < MaxEntries
                  /\ entries' = <<NewEntry(id, t, v)>> \o entries
                  /\ formData' = EmptyForm
                  /\ showAnalysis' = FALSE
                  /\ storage' = SaveEffect(isLoaded, entries', storage)
                  /\ now' = t
                  /\ submitted' = [done |-> TRUE, form |-> formData, error |-> Null]
                  /\ UNCHANGED <<error, isLoaded, phase>>

removeEntry(id) ==
    /\ phase = "ready"
    /\ entries' = SelectSeq(entries, LAMBDA e : e.id # id)
    /\ showAnalysis' = IF Len(entries) <= 1 THEN FALSE ELSE showAnalysis
    /\ storage' = SaveEffect(isLoaded, entries', storage)
    /\ submitted' = NotSubmitted
    /\ UNCHANGED <<formData, error, isLoaded, phase, now>>

\* the button is rendered when entries.length > 0; ok: what confirm() returns
clearAll(ok) ==
    /\ phase = "ready"
    /\ Len(entries) > 0
    /\ IF ok
         THEN /\ entries' = <<>>
              /\ showAnalysis' = FALSE
              /\ storage' = SaveEffect(isLoaded, entries', Absent)
         ELSE UNCHANGED <<entries, showAnalysis, storage>>
    /\ submitted' = NotSubmitted
    /\ UNCHANGED <<formData, error, isLoaded, phase, now>>

\* the "Get Analysis" button, rendered when entries.length > 0 && !showAnalysis
getAnalysis ==
    /\ phase = "ready"
    /\ Len(entries) > 0 /\ ~showAnalysis
    /\ showAnalysis' = TRUE
    /\ submitted' = NotSubmitted
    /\ UNCHANGED <<entries, formData, error, isLoaded, storage, phase, now>>

Next ==
    \/ MountEffects
    \/ RenderLoaded
    \/ \E name \in {"total", "good", "bad"} : \E value \in FieldValues[name] : handleInputChange(name, value)
    \/ \E id \in Ids, t \in {u \in Times : u >= now} : handleAddEntry(id, t)
    \/ \E id \in Ids : removeEntry(id)
    \/ \E ok \in BOOLEAN : clearAll(ok)
    \/ getAnalysis

Spec == Init /\ [][Next]_vars

\* handleAddEntry alone, from every form of RawForms over an empty collection
InitV ==
    /\ entries = <<>>
    /\ formData \in RawForms
    /\ error = Null
    /\ showAnalysis = FALSE
    /\ isLoaded = TRUE
    /\ storage = JSONstringify(<<>>)
    /\ phase = "ready"
    /\ now = 0
    /\ submitted = NotSubmitted

NextV == \E id \in Ids, t \in {u \in Times : u >= now} : handleAddEntry(id, t)

SpecV == InitV /\ [][NextV]_vars

\* The page with one of Collections loaded and saved: rows are deleted, the
\* analysis is asked for, the collection is cleared.
InitC ==
    /\ entries \in SampleCollections
    /\ formData = EmptyForm
    /\ error = Null
    /\ showAnalysis = FALSE
    /\ isLoaded = TRUE
    /\ storage = JSONstringify(entries)
    /\ phase = "ready"
    /\ now = SampleTimes[Len(SampleTimes)]
    /\ submitted = NotSubmitted

NextC ==
    \/ \E k \in 1..MaxCollection : removeEntry(SampleIds[k])
    \/ \E ok \in BOOLEAN : clearAll(ok)
    \/ getAnalysis

SpecC == InitC /\ [][NextC]_vars

-----------------------------------------------------------------------------
(* What the claims speak of, stated apart from the code above.             *)

\* the form and the outcome of the handleAddEntry call that led to this state
Form == submitted.form

Accepted == submitted.done /\ submitted.error = Null /\ Len(entries) > 0

RECURSIVE DigitsValue(_, _, _)
DigitsValue(ds, i, acc) ==
    IF i > Len(ds) THEN acc ELSE DigitsValue(ds, i + 1, 10 * acc + DigitVal(ds[i]))

\* s is, as a whole, a decimal number literal
WhollyNumeric(s) == LET sc == ScanDecimal(s) IN sc.ok /\ sc.rest = <<>>

\* s is empty or does not begin like a number at all
NotNumeric(s) == s = <<>> \/ ~(IsDigit(s[1]) \/ s[1] \in {"+", "-", "."})

AllNumeric(f) == WhollyNumeric(f.total) /\ WhollyNumeric(f.good) /\ WhollyNumeric(f.bad)

\* the number a literal of at most three decimals denotes, in thousandths
Thousandths(s) ==
    LET sc == ScanDecimal(s)
    IN  (IF sc.neg THEN -1 ELSE 1) * DigitsValue(sc.digits, 1, 0) * 10^(3 - sc.scale)

\* |total - (good + bad)| of the numbers typed, in thousandths
TypedDifference(f) ==
    LET d == Thousandths(f.total) - (Thousandths(f.good) + Thousandths(f.bad))
    IN  IF d < 0 THEN -d ELSE d

\* the double a literal denotes
TypedNumber(s) == LiteralValue(ScanDecimal(s))

\* good / total * 100 in the host's arithmetic
Percent(good, total) == DMul(DDiv(good, total), DFromInt(100))

\* the natural n with n / p nearest to |x|, for 0 < p <= 10000
NearestMultiple(x, p) ==
    IF x.exp >= 0 THEN BShl(BMulSmall(x.man, p, 0), x.exp)
    ELSE BShr(BAdd(BMulSmall(x.man, 2 * p, 0), BShl(BOne, -x.exp)), 1 - x.exp).q

HundredthsOf(e) == NearestMultiple(e, 100)

RECURSIVE BToInt(_, _)
BToInt(a, i) == IF i > Len(a) THEN 0 ELSE a[i] + Base * BToInt(a, i + 1)

\* the integer n with n / p nearest to x
ScaledBy(x, p) == (IF x.neg THEN -1 ELSE 1) * BToInt(NearestMultiple(x, p), 1)

RECURSIVE SumOfHundredths(_, _)
SumOfHundredths(es, i) ==
    IF i > Len(es) THEN 0 ELSE ScaledBy(es[i].efficiency, 100) + SumOfHundredths(es, i + 1)

ZeroSnapshot ==
    [totalRecording |-> DFromInt(0), totalGood |-> DFromInt(0), totalBad |-> DFromInt(0),
     avgEfficiency |-> DFromInt(0)]

\* e is x rounded to two decimals: e is the double of n / 100 for a natural n,
\* and no multiple of 1 / 100 is nearer to x, that is |n - 100 |x|| <= 1 / 2
IsRound2(e, x) ==
    /\ ~isNaN(e) /\ ~isNaN(x)
    /\ LET n    == HundredthsOf(e)
           up   == IF x.exp < 0 THEN -x.exp ELSE 0
           a    == BShl(n, up + 1)
           b    == BShl(BMulSmall(x.man, 200, 0), IF x.exp > 0 THEN x.exp ELSE 0)
           diff == IF BCmp(a, b) >= 0 THEN BSub(a, b) ELSE BSub(b, a)
       IN  /\ e = RoundRatio(e.neg, n, BFromInt(100), 0)
           /\ BCmp(diff, BShl(BOne, up)) <= 0
           /\ n = <<>> \/ e.neg = x.neg

\* the three invariants of an entry, on the numbers it stores
EntryInvariant(e) ==
    /\ DGt(e.totalHours, DFromInt(0))
    /\ DLe(DAbs(DSub(e.totalHours, DAdd(e.goodHours, e.badHours))), TypedNumber(<<"0", ".", "0", "1">>))
    /\ IsRound2(e.efficiency, Percent(e.goodHours, e.totalHours))

\* the sum of a field over the collection, in ten-thousandths
RECURSIVE SumScaled(_, _, _)
SumScaled(es, field, i) ==
    IF i > Len(es) THEN 0 ELSE ScaledBy(es[i][field], 10000) + SumScaled(es, field, i + 1)

Reversed(es) == [i \in 1..Len(es) |-> es[Len(es) + 1 - i]]

\* the hours of entry e are the numbers typed as total, good, bad
HasHours(e, total, good, bad) ==
    /\ e.totalHours = TypedNumber(total)
    /\ e.goodHours = TypedNumber(good)
    /\ e.badHours = TypedNumber(bad)

H24 == <<"2", "4">>

\* es holds an entry of 24, 22, 2 hours and one of 24, 19, 5 hours, in either order
TwoDays(es) ==
    /\ Len(es) = 2
    /\ \E i, j \in 1..2 :
          /\ i # j
          /\ HasHours(es[i], H24, <<"2", "2">>, <<"2">>)
          /\ HasHours(es[j], H24, <<"1", "9">>, <<"5">>)

TwoDaysSnapshot ==
    [totalRecording |-> DFromInt(48), totalGood |-> DFromInt(41), totalBad |-> DFromInt(7),
     avgEfficiency |-> TypedNumber(<<"8", "5", ".", "4", "2">>)]

\* snapshot s holds the sums of the hours of es, to the ten-thousandth
TotalsOf(s, es) ==
    /\ ScaledBy(s.totalRecording, 10000) = SumScaled(es, "totalHours", 1)
    /\ ScaledBy(s.totalGood, 10000) = SumScaled(es, "goodHours", 1)
    /\ ScaledBy(s.totalBad, 10000) = SumScaled(es, "badHours", 1)

\* es without its k-th entry
RemoveAt(es, k) == SubSeq(es, 1, k - 1) \o SubSeq(es, k + 1, Len(es))

HasId(es, id) == \E k \in 1..Len(es) : es[k].id = id

\* the entries of es at the positions in S, in the order of es
RECURSIVE Keep(_, _, _)
Keep(es, S, i) ==
    IF i > Len(es) THEN <<>>
    ELSE (IF i \in S THEN <<es[i]>> ELSE <<>>) \o Keep(es, S, i + 1)

\* a is b with some entries taken out
IsSubseq(a, b) == \E S \in SUBSET (1..Len(b)) : a = Keep(b, S, 1)

\* no entry stands before one with a later timestamp
NewestFirst(es) == \A i, j \in 1..Len(es) : i < j => es[i].timestamp >= es[j].timestamp

\* the place of the entry with this id in the order of insertion
InsertionIndex(id) == CHOOSE k \in 1..Len(SampleIds) : SampleIds[k] = id

F1073 == [total |-> <<"1", "0">>, good |-> <<"7">>, bad |-> <<"3">>]

F107299 == [total |-> <<"1", "0">>, good |-> <<"7">>, bad |-> <<"2", ".", "9", "9">>]

-----------------------------------------------------------------------------
(* The claims.                                                             *)

\* C1: every triple of number literals with total > 0 and
\* |total - (good + bad)| <= 0.01 is accepted, and the entry created stores
\* the three numbers as given, with efficiency good / total * 100 rounded to
\* two decimals.
C1_ValidTripleAccepted ==
    (submitted.done /\ AllNumeric(Form) /\ Thousandths(Form.total) > 0 /\ TypedDifference(Form) <= 10)
    => /\ Accepted
       /\ entries[1].totalHours = TypedNumber(Form.total)
       /\ entries[1].goodHours = TypedNumber(Form.good)
       /\ entries[1].badHours = TypedNumber(Form.bad)
       /\ IsRound2(entries[1].efficiency, Percent(entries[1].goodHours, entries[1].totalHours))

\* C2: a call with a field that is empty, not a number, or a number followed
\* by other characters sets the NotANumber message and creates no entry,
\* whatever the other two fields hold.
C2_MalformedRejected ==
    [][(submitted'.done /\ \E name \in {"total", "good", "bad"} : ~WhollyNumeric(formData[name]))
       => (error' = MsgNotANumber /\ entries' = entries)]_vars

\* C3: a triple of number literals with total > 0 is rejected with the
\* Inconsistent message exactly when |total - (good + bad)| > 0.01; a
\* difference of exactly 0.01 passes, a difference of 0.011 does not.
C3_InconsistentExactly ==
    (submitted.done /\ AllNumeric(Form) /\ Thousandths(Form.total) > 0)
    => (submitted.error = MsgInconsistent <=> TypedDifference(Form) > 10)

\* C4: the checks run in the order NotANumber, Inconsistent, NonPositiveTotal:
\* a field that is no number gives NotANumber whatever else is wrong; a triple
\* of numbers with total <= 0 gives NonPositiveTotal only when
\* |total - (good + bad)| <= 0.01, and gives Inconsistent when the difference
\* is larger.
C4_CheckOrder ==
    submitted.done
    => /\ (NotNumeric(Form.total) \/ NotNumeric(Form.good) \/ NotNumeric(Form.bad))
          => submitted.error = MsgNotANumber
       /\ (AllNumeric(Form) /\ Thousandths(Form.total) <= 0)
          => /\ submitted.error = MsgNonPositive => TypedDifference(Form) <= 10
             /\ TypedDifference(Form) > 10 => submitted.error = MsgInconsistent
             /\ submitted.error \in {MsgNonPositive, MsgInconsistent}

\* a triple that breaks both the consistency and the positivity condition was
\* submitted and got the Inconsistent message
C4_Witness ==
    /\ submitted.done /\ AllNumeric(Form)
    /\ Thousandths(Form.total) <= 0 /\ TypedDifference(Form) > 10
    /\ submitted.error = MsgInconsistent /\ error = MsgInconsistent

\* C5: in every reachable state every entry of the collection has
\* totalHours > 0, |totalHours - (goodHours + badHours)| <= 0.01 and
\* efficiency = goodHours / totalHours * 100 rounded to two decimals.
C5_EveryEntryValid == \A i \in 1..Len(entries) : EntryInvariant(entries[i])

\* C6: every entry handleAddEntry accepts has goodHours >= 0, badHours >= 0
\* and 0 <= efficiency <= 100.
C6_AcceptedInRange ==
    Accepted
    => /\ DLe(DFromInt(0), entries[1].goodHours)
       /\ DLe(DFromInt(0), entries[1].badHours)
       /\ DLe(DFromInt(0), entries[1].efficiency)
       /\ DLe(entries[1].efficiency, DFromInt(100))

\* C7 as the spec states it: ("10", "7", "3") is accepted with efficiency
\* 70.00, and ("10", "7", "2.99") is rejected with the Inconsistent message.
C7_AsStated ==
    submitted.done
    => /\ Form = F1073 => (Accepted /\ toFixed(entries[1].efficiency, 2) = <<"7", "0", ".", "0", "0">>)
       /\ Form = F107299 => submitted.error = MsgInconsistent

\* C7 amended: ("10", "7", "3") is accepted with efficiency 70.00, and
\* ("10", "7", "2.99"), whose difference is within the tolerance, is accepted
\* too, with efficiency 70.00.
C7_BothAccepted ==
    (submitted.done /\ Form \in {F1073, F107299})
    => /\ Accepted
       /\ entries[1].totalHours = DFromInt(10)
       /\ entries[1].goodHours = DFromInt(7)
       /\ entries[1].badHours = TypedNumber(Form.bad)
       /\ entries[1].efficiency = DFromInt(70)
       /\ toFixed(entries[1].efficiency, 2) = <<"7", "0", ".", "0", "0">>

\* ("10", "7", "2.99") was submitted and is the first entry of the collection
C7_Witness ==
    /\ submitted.done /\ Form = F107299 /\ submitted.error = Null
    /\ Len(entries) = 1 /\ entries[1].badHours = TypedNumber(<<"2", ".", "9", "9">>)

\* C8: a handleAddEntry call that is rejected changes the error message and
\* nothing else: the collection, the three fields of the form and the rest of
\* the state are as before, and so again at the next rejection.
C8_RejectedAddKeepsState ==
    [][(submitted'.done /\ submitted'.error # Null)
       => /\ entries' = entries
          /\ formData' = formData
          /\ error' = submitted'.error
          /\ UNCHANGED <<showAnalysis, isLoaded, storage, phase, now>>]_vars

\* a call was rejected with entries in the collection and text in the form
C8_Witness ==
    /\ submitted.done /\ submitted.error # Null /\ error = submitted.error
    /\ Len(entries) > 0
    /\ formData = submitted.form /\ formData # EmptyForm

\* C9: whenever the collection is empty, stats is {0, 0, 0, 0}, in the
\* current and in the earlier revision: no 0 / 0 of the efficiency sum by the
\* entry count shows in avgEfficiency.
C9_EmptySummaryIsZero ==
    Len(entries) = 0 => (stats(entries) = ZeroSnapshot /\ stats_part_000(entries) = ZeroSnapshot)

\* the collection is empty again after an entry was added at time 1
C9_Witness ==
    /\ phase = "ready" /\ Len(entries) = 0 /\ now = 1
    /\ stats(entries).avgEfficiency = DFromInt(0)

\* C10: for a non-empty collection avgEfficiency is the mean of the stored
\* efficiencies: to four decimals it is the sum of the efficiencies, each a
\* number of hundredths, over the number of entries.
C10_AvgIsMeanOfStored ==
    Len(entries) > 0
    => ScaledBy(stats(entries).avgEfficiency, 10000)
         = (2 * 100 * SumOfHundredths(entries, 1) + Len(entries)) \div (2 * Len(entries))

\* two entries whose mean efficiency is not totalGood / totalRecording * 100
C10_Witness ==
    /\ Len(entries) = 2
    /\ ScaledBy(stats(entries).avgEfficiency, 10000) = 50 * SumOfHundredths(entries, 1)
    /\ ~isNaN(Percent(stats(entries).totalGood, stats(entries).totalRecording))
    /\ ScaledBy(stats(entries).avgEfficiency, 10000)
         # ScaledBy(Percent(stats(entries).totalGood, stats(entries).totalRecording), 10000)

\* C11: totalRecording, totalGood and totalBad are the sums of totalHours,
\* goodHours and badHours over all entries, whatever their order (to the
\* ten-thousandth of an hour, the sums being floating-point), in the current
\* and in the earlier revision; and entries of 24, 22, 2 and 24, 19, 5 hours
\* have efficiencies 91.67 and 79.17 and the snapshot 48, 41, 7, 85.42.
C11_TotalsAreSums ==
    /\ TotalsOf(stats(entries), entries)
    /\ TotalsOf(stats(Reversed(entries)), entries)
    /\ TotalsOf(stats_part_000(entries), entries)
    /\ TotalsOf(stats_part_000(Reversed(entries)), entries)
    /\ \A i \in 1..Len(entries) :
          /\ HasHours(entries[i], H24, <<"2", "2">>, <<"2">>)
               => entries[i].efficiency = TypedNumber(<<"9", "1", ".", "6", "7">>)
          /\ HasHours(entries[i], H24, <<"1", "9">>, <<"5">>)
               => entries[i].efficiency = TypedNumber(<<"7", "9", ".", "1", "7">>)
    /\ TwoDays(entries)
          => stats(entries) = TwoDaysSnapshot /\ stats_part_000(entries) = TwoDaysSnapshot

\* the two entries of 24 hours, the one of 19 good hours added last
C11_Witness ==
    /\ TwoDays(entries)
    /\ entries[1].goodHours = DFromInt(19)
    /\ stats(entries).totalGood = DFromInt(41)

\* C13: the id of an entry that handleAddEntry adds is unique.  Stated here for
\* the ids in use: it differs from the id of every entry the collection
\* holds when the entry is added (the claim asks, beyond that, that it differ
\* from the ids of entries deleted before).
C13_NewIdNotInUse ==
    [][(submitted'.done /\ submitted'.error = Null /\ Len(entries') = Len(entries) + 1)
         => \A i \in 1..Len(entries) : entries[i].id # entries'[1].id]_vars

\* C12: removeEntry(id) takes exactly one entry out, one with that id, and
\* leaves all others in place, unchanged and in the same order; for an id no
\* entry has it leaves the collection as it is, and the page goes on.
C12_RemovesExactlyOne ==
    [][\A id \in Ids :
         removeEntry(id)
         => /\ phase' = "ready"
            /\ IF HasId(entries, id)
                 THEN \E k \in 1..Len(entries) :
                          entries[k].id = id /\ entries' = RemoveAt(entries, k)
                 ELSE entries' = entries]_vars

\* C14: the collection is newest first.  A successful add puts the new entry,
\* stamped with the time of the call, in front of the collection as it was;
\* every other step of the loaded page only takes entries out and leaves the
\* rest in their order; so the entries stand in reverse order of insertion,
\* none before one with a later timestamp.
C14_NewestFirst ==
    [][phase = "ready"
         => /\ IF submitted'.done /\ submitted'.error = Null
                 THEN /\ Len(entries') = Len(entries) + 1
                      /\ Tail(entries') = entries
                      /\ entries'[1].timestamp = now'
                 ELSE IsSubseq(entries', entries)
            /\ NewestFirst(entries')]_vars

\* an entry added at time 1 stands in front of one of time 0
C14_Witness ==
    /\ Accepted /\ Len(entries) = 2
    /\ entries[1].timestamp = 1 /\ entries[2].timestamp = 0

\* C15: for every collection, the empty one and those with no bad hours
\* included, pieData has exactly two elements, the good slice first and the
\* bad slice second, whose values are totalGood and totalBad: the sums of
\* goodHours and of badHours of the collection.
C15_TwoSlices ==
    \A p \in {pieData(stats(entries)), pieData(stats_part_000(entries))} :
        /\ Len(p) = 2
        /\ p[1].name = "Useful (Good)" /\ p[2].name = "Wasted (Bad)"
        /\ p[1].value = stats(entries).totalGood /\ p[2].value = stats(entries).totalBad
        /\ ScaledBy(p[1].value, 10000) = SumScaled(entries, "goodHours", 1)
        /\ ScaledBy(p[2].value, 10000) = SumScaled(entries, "badHours", 1)

\* entries with good hours only: the bad slice is there, with value 0
C15_Witness ==
    /\ Len(entries) = 2
    /\ Len(pieData(stats(entries))) = 2
    /\ DIsZero(pieData(stats(entries))[2].value)
    /\ pieData(stats(entries))[1].value = DFromInt(48)

\* C16: the trend data has exactly one point per entry, with the timestamp
\* and efficiency of that entry, the entry inserted first coming first: the
\* points are in order of insertion and so of time, and entries with the same
\* timestamp stay separate points in their order of insertion.  The view is
\* computed from the collection, which stays as it is.
C16_TrendOldestFirst ==
    /\ Len(trendData(entries)) = Len(entries)
    /\ \A k \in 1..Len(entries) :
          Cardinality({i \in 1..Len(entries) :
                          /\ trendData(entries)[i].id = entries[k].id
                          /\ trendData(entries)[i].timestamp = entries[k].timestamp
                          /\ trendData(entries)[i].efficiency = entries[k].efficiency}) = 1
    /\ \A i, j \in 1..Len(entries) :
          i < j => /\ InsertionIndex(trendData(entries)[i].id) < InsertionIndex(trendData(entries)[j].id)
                   /\ trendData(entries)[i].timestamp <= trendData(entries)[j].timestamp

\* three entries, the second and third added at the same time
C16_Witness ==
    /\ Len(entries) = 3
    /\ trendData(entries)[1].timestamp < trendData(entries)[2].timestamp
    /\ trendData(entries)[2].timestamp = trendData(entries)[3].timestamp
    /\ trendData(entries)[2].id = SampleIds[2] /\ trendData(entries)[3].id = SampleIds[3]
    /\ entries[1].id = SampleIds[3]

\* C17: the load at startup never ends the page: when the stored text does
\* not parse, or parses to something that is no list of entries, the
\* collection after the load is empty, and the render that computes stats
\* and the views from it goes through.
C17_LoadNeverCrashes ==
    /\ phase # "crashed"
    /\ (isLoaded /\ storage.kind \in {"malformed", "object"}) => entries = <<>>

\* C18: on the loaded page the store holds the serialization of the
\* collection after every successful add, every remove and every confirmed
\* clear, entry for entry in the same order, and what a load at the next
\* startup would read from it is that collection.
C18_StoreMirrorsCollection ==
    phase = "ready"
    => /\ storage = JSONstringify(entries)
       /\ storage.kind = "array" /\ storage.items = entries

\* an entry added at time 1 was taken out again; the one of time 0 is left
C18_Witness ==
    /\ phase = "ready" /\ now = 1
    /\ Len(entries) = 1 /\ entries[1].timestamp = 0
    /\ storage.items = entries

\* C19: the save never runs before the load has completed: the step taken
\* while isLoaded is still false leaves the store as it is and, when the
\* store holds a collection, makes that collection the one in memory; the
\* save of the render after it then writes back what was stored.
C19_NoSaveBeforeLoad ==
    [][/\ ~isLoaded => /\ storage' = storage
                       /\ storage.kind = "array" => entries' = storage.items
       /\ (phase = "loaded" /\ storage.kind = "array")
            => storage' = storage /\ entries' = storage.items]_vars

\* the load has completed with the stored collection of one entry
C19_Witness ==
    /\ phase = "loaded" /\ isLoaded
    /\ Len(entries) = 1
    /\ storage = JSONstringify(<<StoredEntry>>) /\ entries = storage.items

\* C20: showAnalysis is true only while the collection has entries: it is
\* switched on only then, and every successful add, every remove that leaves
\* the collection empty and every confirmed clear switch it off.
C20_AnalysisOnlyWithEntries == showAnalysis => Len(entries) > 0

\* C21: a message is displayed only while the fields hold the triple whose
\* submission was last rejected: a message shown after a step is either the
\* one of the call just rejected, on the form that call read, or the one
\* shown before, over unchanged fields; every change of a field clears it;
\* and after every successful add the message is null and the fields empty.
C21_ErrorOnlyOnRejectedForm ==
    [][/\ formData' # formData => error' = Null
       /\ (submitted'.done /\ submitted'.error = Null)
            => error' = Null /\ formData' = EmptyForm
       /\ error' # Null
            => \/ /\ submitted'.done /\ submitted'.error = error'
                  /\ formData' = submitted'.form /\ formData' = formData
               \/ error' = error /\ formData' = formData]_vars

\* the message of a rejected call is still shown, over the same fields, after
\* the analysis was asked for
C21_Witness ==
    /\ error = MsgInconsistent /\ ~submitted.done
    /\ showAnalysis /\ Len(entries) > 0
    /\ Validate(formData).error = MsgInconsistent

====
